---- MODULE Spec2Model ----
(***************************************************************************)
(* A model of acwx.wx.graph.series.Series: the sample lists X and Y, the   *)
(* running bounding box, the hard clamps and the empty flag, driven by     *)
(* add_point, trim_to_domain, trim_to_count and update_bbox.               *)
(*                                                                         *)
(* Numbers are held as integer counts of half units, so that the source's  *)
(* divisions by two (min_width/2, (xmin+xmax)/2) are exact: every input    *)
(* (samples, clamps, minimum sizes, trim limits) is a whole number of      *)
(* units, that is an even count.  An optional number is <<>> for None and  *)
(* <<v>> for the number v.                                                 *)
(***************************************************************************)
EXTENDS Integers, Sequences, FiniteSets, TLC

\* ---------------------------------------------------------------- bounds
\* add_point is called at most MaxAdds times in a run
MaxAdds == 3

\* each series merged into a box has been given at most BoxAdds points
BoxAdds == 1

\* samples, trim limits, trim counts and minimum sizes offered to the series
XVals == {0, 2, 4}
YVals == {0, 2}
TrimVals == {0, 2, 6}
Counts == 0..MaxAdds
Widths == {0, 2}
Heights == {0, 2}

\* ------------------------------------------------------ optional numbers
None == <<>>
Some(v) == <<v>>
Val(o) == o[1]

\* hard clamps offered to the constructor; both axes include an inverted pair
XClamps == {None, Some(0), Some(4)}
YMinClamps == {None, Some(2)}
YMaxClamps == {None, Some(0)}

\* Python 2 ordering: None sorts below every number.
PyLt(a, b) ==
    IF a = None THEN b # None
    ELSE IF b = None THEN FALSE
    ELSE Val(a) < Val(b)

Min2(a, b) == IF b < a THEN b ELSE a
Max2(a, b) == IF b > a THEN b ELSE a

RECURSIVE SeqMin(_)
SeqMin(s) == IF Len(s) = 1 THEN s[1] ELSE Min2(s[1], SeqMin(Tail(s)))

RECURSIVE SeqMax(_)
SeqMax(s) == IF Len(s) = 1 THEN s[1] ELSE Max2(s[1], SeqMax(Tail(s)))

\* Python's list[a:b] for 0-based a, b that may be negative or out of range.
PyIndex(len, i) == IF i < 0 THEN Max2(len + i, 0) ELSE Min2(i, len)

PySlice(s, a, b) ==
    LET lo == PyIndex(Len(s), a)
        hi == PyIndex(Len(s), b)
    IN  IF hi <= lo THEN <<>> ELSE SubSeq(s, lo + 1, hi)

\* Python's list[a:]
PySliceFrom(s, a) == PySlice(s, a, Len(s))

\* ----------------------------------------------------------------- state
\* series:  the Series object
\* adds:    how many times add_point has run
\* trimmed: whether trim_to_domain or trim_to_count has run
\* last:    the method that ran last, whether it removed samples and, for
\*          add_point, its arguments
\* peer:    a second Series, merged into the same box as series
\* box0:    the box [x0, y0, x1, y1] as the caller of update_bbox made it
\* box:     the caller's box now
\* merged:  the series whose update_bbox has run on box, in call order
\*          (1 for series, 2 for peer)
\* graph:   the RealtimeGraph object: its configuration, the axis of each
\*          series added to it (series first, peer second) and whether its
\*          series are locked
\* render:  what the last call of redraw handed to the renderer
\* prop:    a cached_property of one instance: the descriptor's weak flag,
\*          the instance's cached entry and what the decorated method did
\* editor:  the EditorContainerOLV object, with the child's editor form and
\*          the table's selection
\* stack:   the calls of select, on_select and on_clear in progress, the
\*          innermost last
\* flow:    what the call that returned last returned, whether an exception
\*          is propagating, and the events posted since the outermost call
\*          began
\* menu:    a call of build_menus: the roles it was given, how far into its
\*          menu list it is, and the state of its loop
VARIABLES series, adds, trimmed, last, peer, box0, box, merged, graph, render, prop,
          editor, stack, flow, menu

vars == <<series, adds, trimmed, last, peer, box0, box, merged, graph, render, prop,
          editor, stack, flow, menu>>
seriesvars == <<series, adds, trimmed, last>>
boxvars == <<peer, box0, box, merged>>
graphvars == <<graph, render>>
cachevars == <<prop>>
editvars == <<editor, stack, flow>>
menuvars == <<menu>>

\* Series.__init__ without initial X / Y data
Series(xmin, xmax, ymin, ymax, min_width, min_height) ==
    [ min_width |-> min_width, min_height |-> min_height,
      xmin |-> xmin, hard_xmin |-> xmin,
      xmax |-> xmax, hard_xmax |-> xmax,
      ymin |-> ymin, hard_ymin |-> ymin,
      ymax |-> ymax, hard_ymax |-> ymax,
      X |-> <<>>, Y |-> <<>>,
      empty |-> TRUE ]

\* Series.__len__
len(self) == Len(self.X)

\* update_bbox taking the larger y for box[1]
update_bbox_ymin_max(self, b) ==
    << IF b[1] = None \/ PyLt(self.xmin, b[1]) THEN self.xmin ELSE b[1],
       IF b[2] = None \/ PyLt(b[2], self.ymin) THEN self.ymin ELSE b[2],
       IF b[3] = None \/ PyLt(b[3], self.xmax) THEN self.xmax ELSE b[3],
       IF b[4] = None \/ PyLt(b[4], self.ymax) THEN self.ymax ELSE b[4] >>

\* Series.update_bbox: the caller's list b = [x0, y0, x1, y1] after the call
update_bbox(self, b) ==
    << IF b[1] = None \/ PyLt(self.xmin, b[1]) THEN self.xmin ELSE b[1],
       IF b[2] = None \/ PyLt(self.ymin, b[2]) THEN self.ymin ELSE b[2],
       IF b[3] = None \/ PyLt(b[3], self.xmax) THEN self.xmax ELSE b[3],
       IF b[4] = None \/ PyLt(b[4], self.ymax) THEN self.ymax ELSE b[4] >>

\* initial_point putting xmax a whole min_width above the point
init_xmax_at_point_full(self, x) ==
    IF self.xmax = None THEN [self EXCEPT !.xmax = Some(x + self.min_width)] ELSE self

\* initial_point, "if self.xmin is None": xmax from the point when it is
\* None too, then xmin from xmax
init_xmax_at_point(self, x) ==
    IF self.xmax = None THEN [self EXCEPT !.xmax = Some(x + self.min_width \div 2)] ELSE self

init_xmin_below_xmax(self) == [self EXCEPT !.xmin = Some(Val(self.xmax) - self.min_width)]

init_xmin(self, x) ==
    IF self.xmin = None THEN init_xmin_below_xmax(init_xmax_at_point(self, x)) ELSE self

\* initial_point, "if self.ymin is None"
init_ymax_at_point(self, y) ==
    IF self.ymax = None THEN [self EXCEPT !.ymax = Some(y + self.min_height \div 2)] ELSE self

init_ymin_below_ymax(self) == [self EXCEPT !.ymin = Some(Val(self.ymax) - self.min_height)]

init_ymin(self, y) ==
    IF self.ymin = None THEN init_ymin_below_ymax(init_ymax_at_point(self, y)) ELSE self

\* initial_point, "if self.xmax is None" and "if self.ymax is None"
init_xmax(self) ==
    IF self.xmax = None THEN [self EXCEPT !.xmax = Some(Val(self.xmin) + self.min_width)] ELSE self

init_ymax(self) ==
    IF self.ymax = None THEN [self EXCEPT !.ymax = Some(Val(self.ymin) + self.min_height)] ELSE self

\* Series.initial_point
initial_point(self, x, y) ==
    [init_ymax(init_xmax(init_ymin(init_xmin(self, x), y))) EXCEPT !.empty = FALSE]

\* add_point, "if self.empty: self.initial_point(x,y)"
init_if_empty(self, x, y) == IF self.empty THEN initial_point(self, x, y) ELSE self

\* add_point putting y at the front of Y
append_y_in_front(self, x, y) == [self EXCEPT !.X = Append(@, x), !.Y = <<y>> \o @]

\* add_point, the two appends
append(self, x, y) == [self EXCEPT !.X = Append(@, x), !.Y = Append(@, y)]

\* add_point, the running x range
stretch_x(self, x) ==
    IF PyLt(Some(x), self.xmin) THEN [self EXCEPT !.xmin = Some(x)]
    ELSE IF PyLt(self.xmax, Some(x)) THEN [self EXCEPT !.xmax = Some(x)]
    ELSE self

\* add_point lowering ymin and never raising ymax
stretch_y_min_only(self, y) ==
    IF PyLt(Some(y), self.ymin) THEN [self EXCEPT !.ymin = Some(y)] ELSE self

\* add_point, the running y range
stretch_y(self, y) ==
    IF PyLt(Some(y), self.ymin) THEN [self EXCEPT !.ymin = Some(y)]
    ELSE IF PyLt(self.ymax, Some(y)) THEN [self EXCEPT !.ymax = Some(y)]
    ELSE self

\* Series.add_point
add_point(self, x, y) ==
    stretch_y(stretch_x(append(init_if_empty(self, x, y), x, y), x), y)

\* recompute_bbox, the branch of a series left without samples
mark_empty_skipped(self) == self

mark_empty(self) == [self EXCEPT !.empty = TRUE]

\* recompute_bbox, the box of the retained data
data_bbox(self) ==
    [self EXCEPT !.xmin = Some(SeqMin(self.X)), !.xmax = Some(SeqMax(self.X)),
                 !.ymin = Some(SeqMin(self.Y)), !.ymax = Some(SeqMax(self.Y))]

\* recompute_bbox, the four hard clamps applied to the box of the data
reclamp_xmin(self) ==
    IF self.hard_xmin # None /\ PyLt(self.hard_xmin, self.xmin)
    THEN [self EXCEPT !.xmin = self.hard_xmin] ELSE self

reclamp_xmax(self) ==
    IF self.hard_xmax # None /\ PyLt(self.xmax, self.hard_xmax)
    THEN [self EXCEPT !.xmax = self.hard_xmax] ELSE self

reclamp_ymin(self) ==
    IF self.hard_ymin # None /\ PyLt(self.hard_ymin, self.ymin)
    THEN [self EXCEPT !.ymin = self.hard_ymin] ELSE self

reclamp_ymax(self) ==
    IF self.hard_ymax # None /\ PyLt(self.ymax, self.hard_ymax)
    THEN [self EXCEPT !.ymax = self.hard_ymax] ELSE self

reclamp_skipped(self) == self

reclamp(self) == reclamp_ymax(reclamp_ymin(reclamp_xmax(reclamp_xmin(self))))

\* the x range widened to the minimum width upwards from xmin
widen_x_upward(self, xmid) ==
    [self EXCEPT !.xmax = Some(Max2(Val(self.xmax), Val(self.xmin) + self.min_width))]

\* recompute_bbox, the box widened about its middle to the minimum size
widen_x(self, xmid) ==
    [self EXCEPT !.xmin = Some(Min2(Val(self.xmin), xmid - self.min_width \div 2)),
                 !.xmax = Some(Max2(Val(self.xmax), xmid + self.min_width \div 2))]

widen_y(self, ymid) ==
    [self EXCEPT !.ymin = Some(Min2(Val(self.ymin), ymid - self.min_height \div 2)),
                 !.ymax = Some(Max2(Val(self.ymax), ymid + self.min_height \div 2))]

widen_skipped(self) == self

widen(self) ==
    widen_y(widen_x(self, (Val(self.xmin) + Val(self.xmax)) \div 2),
            (Val(self.ymin) + Val(self.ymax)) \div 2)

\* Series.recompute_bbox
recompute_bbox(self) ==
    IF len(self) = 0 THEN mark_empty(self)
    ELSE widen(reclamp(data_bbox(self)))

\* The first 0-based index i with X[i] >= x1, or -1 when the generator is
\* exhausted (StopIteration).
FirstAtLeast(X, x1) ==
    LET hits == {i \in 0..(Len(X) - 1) : X[i + 1] >= x1}
    IN  IF hits = {} THEN -1 ELSE CHOOSE i \in hits : \A j \in hits : i <= j

\* The first 0-based index i of xrange(len(X)-1, a, -1) with X[i] <= x2, or
\* -1 when the generator is exhausted (StopIteration).
LastAtMost(X, a, x2) ==
    LET hits == {i \in (a + 1)..(Len(X) - 1) : X[i + 1] <= x2}
    IN  IF hits = {} THEN -1 ELSE CHOOSE i \in hits : \A j \in hits : i >= j

\* trim_to_domain, "self.X = self.X[a:b]; self.Y = self.Y[a:b]" and the
\* recomputation of the box
retain(self, a, b) ==
    recompute_bbox([self EXCEPT !.X = PySlice(@, a, b), !.Y = PySlice(@, a, b)])

\* trim_to_domain, the end b of the retained run when a sample has x >= x1:
\* fb is the index found by the scan from the top, or -1
domain_end(X, fb) == IF fb = -1 THEN Len(X) ELSE fb + 1

\* trim_to_domain with a no-match branch that retains index 0
trim_from_keeps_first(self, fa, x2) ==
    IF fa = -1 THEN retain(self, 0, 1)
    ELSE retain(self, fa, domain_end(self.X, LastAtMost(self.X, fa, x2)))

\* trim_to_domain, given the index fa found by the scan from the bottom, or
\* -1 ("a = b = 0")
trim_from(self, fa, x2) ==
    IF fa = -1 THEN retain(self, 0, 0)
    ELSE retain(self, fa, domain_end(self.X, LastAtMost(self.X, fa, x2)))

\* Series.trim_to_domain
trim_to_domain(self, x1, x2) == trim_from(self, FirstAtLeast(self.X, x1), x2)

\* trim_to_count dropping only the oldest sample of a series that holds more
\* than n
trim_to_count_drop_oldest(self, n) ==
    IF len(self) > n
    THEN recompute_bbox([self EXCEPT !.X = PySliceFrom(@, 1), !.Y = PySliceFrom(@, 1)])
    ELSE self

\* Series.trim_to_count
trim_to_count(self, n) ==
    recompute_bbox([self EXCEPT !.X = PySliceFrom(@, 0 - n), !.Y = PySliceFrom(@, 0 - n)])

\* ---------------------------------------------------------------- actions
\* a box with every field unset, [None]*4
NoBox == <<None, None, None, None>>

\* The constructor's defaults: no clamps, min_width = min_height = 1.
XDefaults(xmin, xmax, w) == xmin = None /\ xmax = None /\ w = 2
YDefaults(ymin, ymax, h) == ymin = None /\ ymax = None /\ h = 2

\* The constructor calls offered: one axis is configured and the other left
\* at its defaults, and the configured axis gets clamps (any pair, inverted
\* ones included) or a minimum size other than the default, not both.
Offered(xmin, xmax, ymin, ymax, w, h) ==
    /\ XDefaults(xmin, xmax, w) \/ YDefaults(ymin, ymax, h)
    /\ w = 2 \/ (xmin = None /\ xmax = None)
    /\ h = 2 \/ (ymin = None /\ ymax = None)

\* ------------------------------------------------------- RealtimeGraph
\* EPS = 10 * sys.float_info.epsilon: in double arithmetic x + EPS is x
\* itself from 32 up and below -32, that is from 64 half units
EPSAbsorbedFrom == 64

\* the double v + EPS, written <<v, k>> for v + k * EPS
PlusEPS(v) ==
    IF v >= EPSAbsorbedFrom \/ v < 0 - EPSAbsorbedFrom THEN <<v, 0>> ELSE <<v, 1>>

\* max(lo + EPS, hi) for numbers lo and hi without an EPS part
MaxWithEPS(lo, hi) == IF hi > lo THEN <<hi, 0>> ELSE PlusEPS(lo)

\* the outcome of an arithmetic expression: a number, or TypeError raised
Ok(v) == [ok |-> TRUE, v |-> v]
TypeError == [ok |-> FALSE, v |-> 0]

\* a - b and a + b, where None is not a number
PySub(a, b) == IF a = None \/ b = None THEN TypeError ELSE Ok(Val(a) - Val(b))
PyAdd(a, b) == IF a = None \/ b = None THEN TypeError ELSE Ok(Val(a) + Val(b))

\* Python 2 min(a, b) and max(a, b) of optional numbers
PyMin(a, b) == IF PyLt(b, a) THEN b ELSE a
PyMax(a, b) == IF PyLt(a, b) THEN b ELSE a

\* "a or b" for a number a
PyOr(a, b) == IF a # 0 THEN Some(a) ELSE b

\* coalesce returning its last argument, the computed value
coalesce_computed_first(args, computed) == computed

\* coalesce(*args, computed): the arguments are evaluated before the call,
\* so a TypeError raised by the computed value is raised whatever args hold
coalesce(args, computed) ==
    IF ~computed.ok THEN TypeError
    ELSE IF \E i \in 1..Len(args) : args[i] # None
    THEN Ok(Val(args[CHOOSE i \in 1..Len(args) :
                        args[i] # None /\ \A j \in 1..(i - 1) : args[j] = None]))
    ELSE computed

\* RealtimeGraph.__init__, where a box argument left out is [None]*4; given
\* keeps the padding arguments of the call
RealtimeGraph(bbox, bbox2, initial_bbox, initial_bbox2, pad, xpad, ypad, ypad2) ==
    [ n |-> 0, axis |-> <<>>, locked |-> FALSE, plotted |-> None,
      given |-> [pad |-> pad, ypad |-> ypad, ypad2 |-> ypad2],
      xpad |-> xpad, ypad |-> PyOr(ypad, pad), ypad2 |-> PyOr(ypad2, pad),
      bbox |-> bbox, bbox2 |-> bbox2,
      init_bbox |-> initial_bbox, init_bbox2 |-> initial_bbox2 ]

\* RealtimeGraph(parent)
NoGraph == RealtimeGraph(NoBox, NoBox, NoBox, NoBox, None, 0, 0, 0)

\* the renderer before redraw has run
NotCalled == [status |-> "", axes |-> <<>>, axes2 |-> <<>>, lines |-> <<>>]

\* redraw, "axes[series.axis] = True" for the i-th series g holds
on_axis(g, i, a) == i <= g.n /\ g.axis[i] = a
axes(g, a) == on_axis(g, 1, a) \/ on_axis(g, 2, a)

\* redraw, "series.update_bbox(boxes[series.axis])" for the i-th series
merge(g, ss, i, a, b) == IF on_axis(g, i, a) THEN update_bbox(ss[i], b) ELSE b

\* redraw, boxes[a] after the loop over the series ss
boxes(g, ss, a) ==
    merge(g, ss, 2, a, merge(g, ss, 1, a, IF a = 0 THEN g.init_bbox ELSE g.init_bbox2))

\* the strict box and the y padding of axis a
strict(g, a) == IF a = 0 THEN g.bbox ELSE g.bbox2
ypad_of(g, a) == IF a = 0 THEN g.ypad ELSE g.ypad2

\* redraw taking the x range of the primary axis when both axes have series
x_both_primary_only(g, ss, k) ==
    IF k = 1
    THEN coalesce(<<g.bbox2[1], g.bbox[1]>>, PySub(boxes(g, ss, 0)[1], Some(g.xpad)))
    ELSE coalesce(<<g.bbox2[3], g.bbox[3]>>, PyAdd(boxes(g, ss, 0)[3], Some(g.xpad)))

\* redraw, "if axes[1] and axes[0]": xmin (k = 1) and the second argument
\* of max in xmax (k = 3)
x_both(g, ss, k) ==
    IF k = 1
    THEN coalesce(<<g.bbox2[1], g.bbox[1]>>,
                  PySub(PyMin(boxes(g, ss, 0)[1], boxes(g, ss, 1)[1]), Some(g.xpad)))
    ELSE coalesce(<<g.bbox2[3], g.bbox[3]>>,
                  PyAdd(PyMax(boxes(g, ss, 0)[3], boxes(g, ss, 1)[3]), Some(g.xpad)))

\* redraw, "elif axes[0]" and "elif axes[1]"
x_one(g, ss, a, k) ==
    IF k = 1
    THEN coalesce(<<strict(g, a)[1]>>, PySub(boxes(g, ss, a)[1], Some(g.xpad)))
    ELSE coalesce(<<strict(g, a)[3]>>, PyAdd(boxes(g, ss, a)[3], Some(g.xpad)))

x_arg(g, ss, k) ==
    IF axes(g, 1) /\ axes(g, 0) THEN x_both(g, ss, k)
    ELSE IF axes(g, 0) THEN x_one(g, ss, 0, k)
    ELSE x_one(g, ss, 1, k)

\* redraw, ymin (k = 2) and the second argument of max in ymax (k = 4)
y_arg(g, ss, a, k) ==
    IF k = 2
    THEN coalesce(<<strict(g, a)[2]>>, PySub(boxes(g, ss, a)[2], ypad_of(g, a)))
    ELSE coalesce(<<strict(g, a)[4]>>, PyAdd(boxes(g, ss, a)[4], ypad_of(g, a)))

\* whether the x bounds, and the y bounds of axis a, are computed without
\* a TypeError
x_ok(g, ss) == x_arg(g, ss, 1).ok /\ x_arg(g, ss, 3).ok
y_ok(g, ss, a) == y_arg(g, ss, a, 2).ok /\ y_arg(g, ss, a, 4).ok

\* a bound as handed to set_xbound / set_ybound: <<lower, upper>>, where
\* upper = max(lower + EPS, hi)
bound(lo, hi) == <<lo.v, MaxWithEPS(lo.v, hi.v)>>

\* redraw, "self.axes.set_xbound(...); self.axes.set_ybound(...)" and the
\* same for axes2: <<xbound, ybound>>, or <<>> when axis a has no series
set_bounds(g, ss, a) ==
    IF axes(g, a)
    THEN <<bound(x_arg(g, ss, 1), x_arg(g, ss, 3)),
           bound(y_arg(g, ss, a, 2), y_arg(g, ss, a, 4))>>
    ELSE <<>>

\* redraw, "self.lines[i].set_xdata(series.X); ...set_ydata(series.Y)"
set_data(g, ss) == [i \in 1..g.n |-> <<ss[i].X, ss[i].Y>>]

\* what a call of redraw hands to the renderer, and how the call ends
redraw(g, ss) ==
    IF ~axes(g, 0) /\ ~axes(g, 1)
    THEN [status |-> "return", axes |-> <<>>, axes2 |-> <<>>, lines |-> <<>>]
    ELSE IF ~x_ok(g, ss) \/ (axes(g, 0) /\ ~y_ok(g, ss, 0))
    THEN [status |-> "TypeError", axes |-> <<>>, axes2 |-> <<>>,
          lines |-> set_data(g, ss)]
    ELSE IF axes(g, 1) /\ ~y_ok(g, ss, 1)
    THEN [status |-> "TypeError", axes |-> set_bounds(g, ss, 0), axes2 |-> <<>>,
          lines |-> set_data(g, ss)]
    ELSE [status |-> "draw", axes |-> set_bounds(g, ss, 0),
          axes2 |-> set_bounds(g, ss, 1), lines |-> set_data(g, ss)]

\* the lines property leaving self.series a list
lines_keep_list(g) ==
    IF g.n > 0 /\ g.plotted = None THEN [g EXCEPT !.plotted = Some(g.n)] ELSE g

\* the lines property as redraw reads it, in its loop over the series: the
\* first read computes it, "self.series = tuple(self.series)" and one line
\* plotted for each series, and later reads return the same tuple of lines
lines(g) ==
    IF g.n > 0 /\ g.plotted = None
    THEN [g EXCEPT !.locked = TRUE, !.plotted = Some(g.n)]
    ELSE g

\* ------------------------------------------------------- cached_property
\* The values the decorated method returns: 1 is a number, to which no weak
\* reference can be made (weakref.ref raises TypeError), 2 and 3 are objects.
Objects == {1, 2, 3}
Refable(v) == v # 1

\* None as the result of a get: what a dead weak reference gives when called
PyNone == 0

\* An entry of inst.__dict__: the object itself, or a weak reference to it,
\* which is dead once the object has been collected.
Entry(ref, obj, dead) == [ref |-> ref, obj |-> obj, dead |-> dead]

\* A cached_property(weak=weak) of a new instance: nothing is cached, the
\* method has not been invoked.  value is what the method returns when
\* invoked now, held the objects that something else refers to strongly, ret
\* the result of the last __get__ and raised whether the last call raised.
cached_property(weak, value, held) ==
    [ weak |-> weak, dict |-> None, calls |-> 0,
      value |-> value, held |-> held, ret |-> PyNone, raised |-> FALSE ]

NoProp == cached_property(FALSE, 1, {})

\* __get__ finding no cached value ever
cached_never(p) == FALSE

\* __get__, "self.name in inst.__dict__"
cached(p) == p.dict # None

\* __get__, "value() if self.weak and isinstance(value, weakref.ref) else
\* value"
deref(p, e) == IF p.weak /\ e.ref THEN (IF e.dead THEN PyNone ELSE e.obj) ELSE e.obj

\* __get__, the value stored after the method was invoked: a weak reference
\* when weak is set and one can be made; dies tells whether the object is
\* collected as soon as the reference replaces it
computed(p, dies) ==
    IF p.weak /\ Refable(p.value) THEN Entry(TRUE, p.value, dies)
    ELSE Entry(FALSE, p.value, FALSE)

\* __get__, the branch that invokes the method
compute(p, dies) ==
    [p EXCEPT !.calls = @ + 1, !.dict = Some(computed(p, dies)),
              !.ret = deref(p, computed(p, dies)), !.raised = FALSE]

\* cached_property.__get__ on an instance
__get__(p, dies) ==
    IF cached(p) THEN [p EXCEPT !.ret = deref(p, Val(p.dict)), !.raised = FALSE]
    ELSE compute(p, dies)

\* cached_property.__set__: with weak set, weakref.ref(value) raises
\* TypeError for a value no weak reference can be made to
__set__(p, v) ==
    IF p.weak
    THEN IF Refable(v) THEN [p EXCEPT !.dict = Some(Entry(TRUE, v, FALSE)), !.raised = FALSE]
         ELSE [p EXCEPT !.raised = TRUE]
    ELSE [p EXCEPT !.dict = Some(Entry(FALSE, v, FALSE)), !.raised = FALSE]

\* cached_property.__delete__
__delete__(p) ==
    IF cached(p) THEN [p EXCEPT !.dict = None, !.raised = FALSE]
    ELSE [p EXCEPT !.raised = FALSE]

\* ---------------------------------------------------- ContextualCounter
\* ContextualCounter.__init__: depth = 0
ContextualCounter == 0

\* __exit__ leaving depth as it is
__exit___skipped(depth) == depth

\* ContextualCounter.__enter__, __exit__ and __nonzero__, on the depth
__enter__(depth) == depth + 1
__exit__(depth) == depth - 1
__nonzero__(depth) == depth > 0

\* --------------------------------------------------- EditorContainerOLV
\* The items select is called with; TableItems are the ones in the table.
\* NoItem stands for None.
Items == {1, 2}
TableItems == {1}
NoItem == 0

\* The form values the child's editor holds, which the child's hash() is
\* computed from: 0 after clear(), the item after load(item), 9 as typed by
\* the user.  NoHash is last_hash = None.
Forms == {0, 1, 2, 9}
NoHash == -1

\* EditorContainerOLV.__init__; has_hash tells whether the child implements
\* hash(), form and selected are the child's editor and the table's selection
EditorContainerOLV(has_hash) ==
    [ suppress_select_event |-> ContextualCounter, _in_select |-> ContextualCounter,
      last_hash |-> NoHash, current_item |-> NoItem, dirty |-> FALSE,
      has_hash |-> has_hash, form |-> 0, selected |-> NoItem ]

NoEditor == EditorContainerOLV(FALSE)

\* no call has returned, no exception is propagating, no event was posted
NoFlow == [ret |-> "", exc |-> FALSE, posted |-> {}]

\* the modified property: its value, and the editor after it was read
modified(self) ==
    IF ~self.dirty THEN FALSE
    ELSE IF self.has_hash THEN self.form # self.last_hash
    ELSE TRUE

read_modified(self) == [self EXCEPT !.dirty = modified(self)]

\* rehash
rehash(self) ==
    [self EXCEPT !.dirty = FALSE,
                 !.last_hash = IF self.has_hash THEN self.form ELSE @]

\* select, "if item == self.current_item"
same_item(self, item) == item = self.current_item

\* select, "if ask and self.modified"; modified is read only when ask is set
asks(self, ask) == ask /\ modified(self)
after_ask(self, ask) == IF ask THEN read_modified(self) ELSE self

\* table.SelectObject(item, ...) and table.DeselectAll(): the selection of
\* the table afterwards; an object that is not in the table is not selected
SelectObject(self, item) ==
    IF item \in TableItems THEN [self EXCEPT !.selected = item] ELSE self

DeselectAll(self) == [self EXCEPT !.selected = NoItem]

\* select, the branch of a declined prompt
reselect(self) ==
    IF self.current_item # NoItem THEN SelectObject(self, self.current_item)
    ELSE DeselectAll(self)

\* select keeping the dirty flag when it has loaded or cleared the editor
set_item_keeps_dirty(self, item, dirty) ==
    IF item = NoItem
    THEN DeselectAll([self EXCEPT !.current_item = item, !.form = 0, !.dirty = dirty])
    ELSE SelectObject([self EXCEPT !.current_item = item, !.form = item, !.dirty = dirty], item)

\* select, "self.current_item = item" to the end of the if: the child's
\* clear() or load(item), which may set dirty as they fill the editor, then
\* rehash() and the selection of the table
set_item(self, item, dirty) ==
    IF item = NoItem
    THEN DeselectAll(rehash([self EXCEPT !.current_item = item, !.form = 0, !.dirty = dirty]))
    ELSE SelectObject(rehash([self EXCEPT !.current_item = item, !.form = item,
                                          !.dirty = dirty]), item)

\* A frame of the call stack: a call of select, on_select or on_clear, the
\* position pc it has reached, and for select its arguments, the
\* current_item and dirty flag it found, the child's methods it has called
\* and how the prompt was answered.
Frame(self, fn, pc, item, ask) ==
    [ fn |-> fn, pc |-> pc, item |-> item, ask |-> ask,
      cur0 |-> self.current_item, dirty0 |-> self.dirty,
      did |-> {}, answer |-> "" ]

\* ----------------------------------------------------------- build_menus
\* An entry of a menu list: '---', or a dict with the keys label and
\* callback or submenu, and possibly show and roles.  show is the value of
\* m.get("show", True), roles the value of m["roles"] or None without that
\* key, allowed the roles given to @user_roles when the callback has a
\* role_allowed attribute, or None.  An unknown entry has neither a callback
\* nor a submenu.
Entry_(kind, show, roles, allowed, submenu) ==
    [kind |-> kind, show |-> show, roles |-> roles, allowed |-> allowed,
     submenu |-> submenu]

Separator == Entry_("---", TRUE, None, None, <<>>)
Callback(show, roles, allowed) == Entry_("callback", show, roles, allowed, <<>>)
Submenu(menus) == Entry_("submenu", TRUE, None, None, menus)
UnknownType == Entry_("unknown", TRUE, None, None, <<>>)

\* build_menus, the three tests that skip an entry
hidden(m, roles) ==
    \/ ~m.show
    \/ m.roles # None /\ roles \cap Val(m.roles) = {}
    \/ m.kind = "callback" /\ m.allowed # None /\ Val(m.allowed) \cap roles = {}

\* build_menus before its loop: parent holds what the call has appended to
\* parent, "---" for AppendSeparator(), "item" and "menu" for Append of an
\* item and of a submenu; raised tells that the call has raised
NoneAppended ==
    [have_items |-> 0, need_separator |-> FALSE, parent |-> <<>>, raised |-> FALSE]

\* build_menus, "if need_separator and have_items: parent.AppendSeparator()"
separate(st) ==
    IF st.need_separator /\ st.have_items # 0
    THEN [st EXCEPT !.parent = Append(@, "---"), !.need_separator = FALSE]
    ELSE st

\* build_menus, "have_items += 1" and the branch of an entry with a submenu,
\* given the state sub in which the call for the submenu ended: the new
\* wx.Menu is appended when that call returns a number other than 0
append_submenu(st, sub) ==
    IF sub.raised THEN [st EXCEPT !.have_items = @ + 1, !.raised = TRUE]
    ELSE IF sub.have_items # 0
    THEN [st EXCEPT !.have_items = @ + 1, !.parent = Append(@, "menu")]
    ELSE st

\* build_menus, "have_items += 1" and the branch of an entry with a callback
append_item(st) == [st EXCEPT !.have_items = @ + 1, !.parent = Append(@, "item")]

\* build_menus, "have_items += 1" and "raise Exception('Unknown menu type')"
unknown_type(st) == [st EXCEPT !.have_items = @ + 1, !.raised = TRUE]

RECURSIVE build_menus(_, _)
RECURSIVE loop(_, _, _)

\* build_menus, one pass of "for m in menus" from the state st
body(st, m, roles) ==
    IF m.kind = "---" THEN [st EXCEPT !.need_separator = TRUE]
    ELSE IF hidden(m, roles) THEN st
    ELSE IF m.kind = "submenu"
    THEN append_submenu(separate(st), build_menus(m.submenu, roles))
    ELSE IF m.kind = "callback" THEN append_item(separate(st))
    ELSE unknown_type(separate(st))

\* build_menus, "for m in menus" from the state st to the return or the raise
loop(st, menus, roles) ==
    IF menus = <<>> \/ st.raised THEN st
    ELSE loop(body(st, Head(menus), roles), Tail(menus), roles)

\* build_menus(widget, parent, menus, roles): the state it ends in, whose
\* have_items it returns
build_menus(menus, roles) == loop(NoneAppended, menus, roles)

\* a call of build_menus with the roles given, n entries into its menu list
Call(roles) == [roles |-> roles, n |-> 0, st |-> NoneAppended]
NoCall == Call({})

\* the call after the pass of its loop for the entry m
pass(c, m) == [c EXCEPT !.n = @ + 1, !.st = body(@, m, c.roles)]

Init ==
    /\ \E xmin \in XClamps, xmax \in XClamps, ymin \in YMinClamps, ymax \in YMaxClamps,
          w \in Widths, h \in Heights :
          /\ Offered(xmin, xmax, ymin, ymax, w, h)
          /\ series = Series(xmin, xmax, ymin, ymax, w, h)
    /\ adds = 0
    /\ trimmed = FALSE
    /\ last = [op |-> "__init__", dropped |-> FALSE, args |-> <<>>]
    /\ peer = Series(None, None, None, None, 2, 2)
    /\ box0 = NoBox
    /\ box = NoBox
    /\ merged = <<>>
    /\ graph = NoGraph
    /\ render = NotCalled
    /\ prop = NoProp
    /\ editor = NoEditor
    /\ stack = <<>>
    /\ flow = NoFlow
    /\ menu = NoCall

AddPoint ==
    /\ adds < MaxAdds
    /\ \E x \in XVals, y \in YVals :
          /\ series' = add_point(series, x, y)
          /\ last' = [op |-> "add_point", dropped |-> FALSE, args |-> <<x, y>>]
    /\ adds' = adds + 1
    /\ UNCHANGED <<trimmed, boxvars, graphvars, cachevars, editvars, menuvars>>

TrimToDomain ==
    /\ \E x1 \in TrimVals, x2 \in TrimVals : series' = trim_to_domain(series, x1, x2)
    /\ last' = [op |-> "trim_to_domain", dropped |-> len(series') < len(series), args |-> <<>>]
    /\ trimmed' = TRUE
    /\ UNCHANGED <<adds, boxvars, graphvars, cachevars, editvars, menuvars>>

TrimToCount ==
    /\ \E n \in Counts : series' = trim_to_count(series, n)
    /\ last' = [op |-> "trim_to_count", dropped |-> len(series') < len(series), args |-> <<>>]
    /\ trimmed' = TRUE
    /\ UNCHANGED <<adds, boxvars, graphvars, cachevars, editvars, menuvars>>

Next == AddPoint \/ TrimToDomain \/ TrimToCount

Spec == Init /\ [][Next]_vars

\* ---------------------------------------------- merging boxes: update_bbox
\* A caller makes a box and runs update_bbox of its series on it, one after
\* the other, as RealtimeGraph.redraw does.  Each of the two series is given
\* up to BoxAdds points before the merging starts.
BoxInputs == {NoBox,
              <<Some(2), Some(0), Some(2), Some(0)>>,
              <<None, Some(2), Some(0), None>>}

InitBox ==
    /\ \E xmin \in XClamps, xmax \in XClamps, ymin \in YMinClamps, ymax \in YMaxClamps,
          w \in Widths, h \in Heights :
          /\ Offered(xmin, xmax, ymin, ymax, w, h)
          /\ series = Series(xmin, xmax, ymin, ymax, w, h)
    /\ adds = 0
    /\ trimmed = FALSE
    /\ last = [op |-> "__init__", dropped |-> FALSE, args |-> <<>>]
    /\ peer = Series(None, None, None, None, 2, 2)
    /\ box0 \in BoxInputs
    /\ box = box0
    /\ merged = <<>>
    /\ graph = NoGraph
    /\ render = NotCalled
    /\ prop = NoProp
    /\ editor = NoEditor
    /\ stack = <<>>
    /\ flow = NoFlow
    /\ menu = NoCall

FillSeries ==
    /\ merged = <<>>
    /\ adds < BoxAdds
    /\ AddPoint

FillPeer ==
    /\ merged = <<>>
    /\ len(peer) < BoxAdds
    /\ \E x \in XVals, y \in YVals : peer' = add_point(peer, x, y)
    /\ UNCHANGED <<series, adds, trimmed, last, box0, box, merged, graphvars, cachevars, editvars, menuvars>>

Ser(i) == IF i = 1 THEN series ELSE peer

UpdateBbox ==
    /\ \E i \in {1, 2} :
          /\ \A k \in 1..Len(merged) : merged[k] # i
          /\ box' = update_bbox(Ser(i), box)
          /\ merged' = Append(merged, i)
    /\ UNCHANGED <<series, adds, trimmed, last, peer, box0, graphvars, cachevars, editvars, menuvars>>

NextBox == FillSeries \/ FillPeer \/ UpdateBbox

SpecBox == InitBox /\ [][NextBox]_vars

\* --------------------------------------------- RealtimeGraph: the actions
\* each series of a graph is given at most GraphAdds points
GraphAdds == 1

\* constructor arguments offered: (pad, xpad, ypad, ypad2)
Pads == {<<None, 0, 0, 0>>, <<Some(0), 0, 0, 0>>, <<Some(2), 2, 0, 4>>}

\* strict boxes (bbox, bbox2) offered: none; all four bounds of the primary
\* axis; bounds of the secondary axis whose upper one does not exceed the
\* lower one; both; and a primary x range where x + EPS is x
Strict1 == <<Some(2), Some(-2), Some(6), Some(6)>>
Strict2 == <<Some(4), Some(2), Some(4), Some(0)>>
StrictFar == <<Some(64), None, Some(64), None>>
StrictBoxes == {<<NoBox, NoBox>>, <<Strict1, NoBox>>, <<NoBox, Strict2>>,
                <<Strict1, Strict2>>, <<StrictFar, NoBox>>}

\* initial boxes (initial_bbox, initial_bbox2) offered
InitialBoxes == {<<NoBox, NoBox>>,
                 <<<<Some(-4), Some(-4), Some(8), Some(8)>>, NoBox>>}

\* the constructor calls offered: padding other than pad=0 comes without
\* strict boxes, initial boxes come with the full primary strict box or none
GraphOffered(p, s, i) ==
    /\ p # <<Some(0), 0, 0, 0>> => s = <<NoBox, NoBox>> /\ i = <<NoBox, NoBox>>
    /\ i # <<NoBox, NoBox>> => s \in {<<NoBox, NoBox>>, <<Strict1, NoBox>>}

\* the series offered to add_series: the defaults, a zero minimum size, and
\* all four clamps
SeriesOffered == {Series(None, None, None, None, 2, 2),
                  Series(None, None, None, None, 0, 0),
                  Series(Some(0), Some(4), Some(0), Some(2), 2, 2)}

\* the points offered to add_points
GraphPoints == {0, 4} \X {0, 2}

InitGraph ==
    /\ series = Series(None, None, None, None, 2, 2)
    /\ adds = 0
    /\ trimmed = FALSE
    /\ last = [op |-> "__init__", dropped |-> FALSE, args |-> <<>>]
    /\ peer = Series(None, None, None, None, 2, 2)
    /\ box0 = NoBox
    /\ box = NoBox
    /\ merged = <<>>
    /\ \E p \in Pads, s \in StrictBoxes, i \in InitialBoxes :
          /\ GraphOffered(p, s, i)
          /\ graph = RealtimeGraph(s[1], s[2], i[1], i[2], p[1], p[2], p[3], p[4])
    /\ render = NotCalled
    /\ prop = NoProp
    /\ editor = NoEditor
    /\ stack = <<>>
    /\ flow = NoFlow
    /\ menu = NoCall

\* RealtimeGraph.add_series on a graph whose series is a tuple:
\* "self.series.append" raises AttributeError
AddSeriesLocked ==
    /\ graph.locked
    /\ last' = [op |-> "add_series", dropped |-> FALSE, args |-> <<"AttributeError">>]
    /\ UNCHANGED <<series, adds, trimmed, boxvars, graphvars, cachevars, editvars, menuvars>>

\* RealtimeGraph.add_series on a graph whose series is a list.  The second
\* series is made with the defaults.
AddSeries ==
    /\ graph.n < 2
    /\ ~graph.locked
    /\ \E a \in {0, 1} : graph' = [graph EXCEPT !.n = @ + 1, !.axis = Append(@, a)]
    /\ IF graph.n = 0
       THEN (\E s \in SeriesOffered : series' = s) /\ peer' = peer
       ELSE series' = series /\ peer' = Series(None, None, None, None, 2, 2)
    /\ last' = [op |-> "add_series", dropped |-> FALSE, args |-> <<>>]
    /\ UNCHANGED <<adds, trimmed, box0, box, merged, render, cachevars, editvars, menuvars>>

\* RealtimeGraph.redraw
Redraw ==
    /\ graph' = lines(graph)
    /\ render' = redraw(graph', <<series, peer>>)
    /\ last' = [op |-> "redraw", dropped |-> FALSE, args |-> <<>>]
    /\ UNCHANGED <<series, adds, trimmed, peer, box0, box, merged, cachevars, editvars, menuvars>>

\* RealtimeGraph.add_points with a point for each of the first k series
AddPoints ==
    /\ \E k \in 1..graph.n :
          /\ \A i \in 1..k : len(Ser(i)) < GraphAdds
          /\ \E p \in GraphPoints : series' = add_point(series, p[1], p[2])
          /\ IF k = 2
             THEN \E p \in GraphPoints : peer' = add_point(peer, p[1], p[2])
             ELSE peer' = peer
    /\ adds' = adds + 1
    /\ graph' = lines(graph)
    /\ render' = redraw(graph', <<series', peer'>>)
    /\ last' = [op |-> "add_points", dropped |-> FALSE, args |-> <<>>]
    /\ UNCHANGED <<trimmed, box0, box, merged, cachevars, editvars, menuvars>>

NextGraph == AddSeries \/ AddSeriesLocked \/ Redraw \/ AddPoints

SpecGraph == InitGraph /\ [][NextGraph]_vars

\* ------------------------------------------- a run of add_point calls only
\* A Series made with the constructor's defaults is given up to MaxAdds
\* points drawn from a wider range of y values.
ScenarioX == {0, 2, 4}
ScenarioY == {0, 6, 10}

InitScenario ==
    /\ series = Series(None, None, None, None, 2, 2)
    /\ adds = 0
    /\ trimmed = FALSE
    /\ last = [op |-> "__init__", dropped |-> FALSE, args |-> <<>>]
    /\ peer = Series(None, None, None, None, 2, 2)
    /\ box0 = NoBox
    /\ box = NoBox
    /\ merged = <<>>
    /\ graph = NoGraph
    /\ render = NotCalled
    /\ prop = NoProp
    /\ editor = NoEditor
    /\ stack = <<>>
    /\ flow = NoFlow
    /\ menu = NoCall

AddScenarioPoint ==
    /\ adds < MaxAdds
    /\ \E x \in ScenarioX, y \in ScenarioY :
          /\ series' = add_point(series, x, y)
          /\ last' = [op |-> "add_point", dropped |-> FALSE, args |-> <<x, y>>]
    /\ adds' = adds + 1
    /\ UNCHANGED <<trimmed, boxvars, graphvars, cachevars, editvars, menuvars>>

NextScenario == AddScenarioPoint

SpecScenario == InitScenario /\ [][NextScenario]_vars

\* ------------------------------------------- cached_property: the actions
\* the decorated method is invoked at most MaxCalls times
MaxCalls == 2

InitCache ==
    /\ series = Series(None, None, None, None, 2, 2)
    /\ adds = 0
    /\ trimmed = FALSE
    /\ last = [op |-> "__init__", dropped |-> FALSE, args |-> <<>>]
    /\ peer = Series(None, None, None, None, 2, 2)
    /\ box0 = NoBox
    /\ box = NoBox
    /\ merged = <<>>
    /\ graph = NoGraph
    /\ render = NotCalled
    /\ \E weak \in BOOLEAN, value \in Objects, held \in SUBSET {2, 3} :
          prop = cached_property(weak, value, held)
    /\ editor = NoEditor
    /\ stack = <<>>
    /\ flow = NoFlow
    /\ menu = NoCall

\* obj.attr: an object that nothing else holds may be collected as soon as
\* the weak reference to it is the only reference left
Get ==
    /\ cached(prop) \/ prop.calls < MaxCalls
    /\ \E dies \in BOOLEAN :
          /\ dies => (prop.weak /\ prop.value \notin prop.held)
          /\ prop' = __get__(prop, dies)
    /\ last' = [op |-> "get", dropped |-> FALSE, args |-> <<>>]
    /\ UNCHANGED <<series, adds, trimmed, boxvars, graphvars, editvars, menuvars>>

\* obj.attr = v
Set ==
    /\ \E v \in Objects :
          /\ prop' = __set__(prop, v)
          /\ last' = [op |-> "set", dropped |-> FALSE, args |-> <<v>>]
    /\ UNCHANGED <<series, adds, trimmed, boxvars, graphvars, editvars, menuvars>>

\* del obj.attr
Delete ==
    /\ prop' = __delete__(prop)
    /\ last' = [op |-> "delete", dropped |-> FALSE, args |-> <<>>]
    /\ UNCHANGED <<series, adds, trimmed, boxvars, graphvars, editvars, menuvars>>

\* the instance changes, so that the method would return another value
Touch ==
    /\ \E v \in Objects : v # prop.value /\ prop' = [prop EXCEPT !.value = v]
    /\ last' = [op |-> "touch", dropped |-> FALSE, args |-> <<>>]
    /\ UNCHANGED <<series, adds, trimmed, boxvars, graphvars, editvars, menuvars>>

\* the last strong reference to an object goes away; when the cache holds
\* only a weak reference to it, the object is collected
Release ==
    /\ \E o \in prop.held :
          prop' = [prop EXCEPT
                      !.held = @ \ {o},
                      !.dict = IF @ # None /\ Val(@).ref /\ Val(@).obj = o
                               THEN Some(Entry(TRUE, o, TRUE)) ELSE @]
    /\ last' = [op |-> "release", dropped |-> FALSE, args |-> <<>>]
    /\ UNCHANGED <<series, adds, trimmed, boxvars, graphvars, editvars, menuvars>>

\* an object that nothing holds is collected while the cache has a weak
\* reference to it
Collect ==
    /\ prop.dict # None
    /\ Val(prop.dict).ref /\ ~Val(prop.dict).dead
    /\ Val(prop.dict).obj \notin prop.held
    /\ prop' = [prop EXCEPT !.dict = Some(Entry(TRUE, Val(@).obj, TRUE))]
    /\ last' = [op |-> "collect", dropped |-> FALSE, args |-> <<>>]
    /\ UNCHANGED <<series, adds, trimmed, boxvars, graphvars, editvars, menuvars>>

NextCache == Get \/ Set \/ Delete \/ Touch \/ Release \/ Collect

SpecCache == InitCache /\ [][NextCache]_vars

\* ---------------------------------------- EditorContainerOLV: the actions
\* The handlers run on one thread and call each other, directly or through
\* the table's selection event, so the state holds the call stack and each
\* action is a step of the call on top of it, or a new call when the stack
\* is empty.
Top == stack[Len(stack)]
Below == SubSeq(stack, 1, Len(stack) - 1)
Idle == stack = <<>>
Running == stack # <<>> /\ ~flow.exc

\* the stack k after the table delivered (or not) its selection event: the
\* handler bound to EVT_LIST_ITEM_SELECTED is on_select
Fired(k, self, fires) ==
    IF fires THEN Append(k, Frame(self, "on_select", "guard", NoItem, TRUE)) ELSE k

InitEditor ==
    /\ series = Series(None, None, None, None, 2, 2)
    /\ adds = 0
    /\ trimmed = FALSE
    /\ last = [op |-> "__init__", dropped |-> FALSE, args |-> <<>>]
    /\ peer = Series(None, None, None, None, 2, 2)
    /\ box0 = NoBox
    /\ box = NoBox
    /\ merged = <<>>
    /\ graph = NoGraph
    /\ render = NotCalled
    /\ prop = NoProp
    /\ \E has_hash \in BOOLEAN : editor = EditorContainerOLV(has_hash)
    /\ stack = <<>>
    /\ flow = NoFlow
    /\ menu = NoCall

\* the user types in the child's editor, and the child sets dirty
Edit ==
    /\ Idle
    /\ \E f \in Forms : editor' = [editor EXCEPT !.form = f, !.dirty = TRUE]
    /\ flow' = NoFlow
    /\ UNCHANGED <<stack, seriesvars, boxvars, graphvars, cachevars, menuvars>>

\* the application calls select(item, ask)
CallSelect ==
    /\ Idle
    /\ \E item \in {NoItem} \cup Items, ask \in BOOLEAN :
          stack' = <<Frame(editor, "select", "guard", item, ask)>>
    /\ flow' = NoFlow
    /\ UNCHANGED <<editor, seriesvars, boxvars, graphvars, cachevars, menuvars>>

\* the user selects a row of the table: EVT_LIST_ITEM_SELECTED
ClickList ==
    /\ Idle
    /\ \E item \in TableItems : editor' = [editor EXCEPT !.selected = item]
    /\ stack' = <<Frame(editor', "on_select", "guard", NoItem, TRUE)>>
    /\ flow' = NoFlow
    /\ UNCHANGED <<seriesvars, boxvars, graphvars, cachevars, menuvars>>

\* the user presses Clear
ClickClear ==
    /\ Idle
    /\ stack' = <<Frame(editor, "on_clear", "call", NoItem, TRUE)>>
    /\ flow' = NoFlow
    /\ UNCHANGED <<editor, seriesvars, boxvars, graphvars, cachevars, menuvars>>

\* select, "if self._in_select: return True"
SelectReentered ==
    /\ Running /\ Top.fn = "select" /\ Top.pc = "guard"
    /\ __nonzero__(editor._in_select)
    /\ stack' = Below
    /\ flow' = [flow EXCEPT !.ret = "True"]
    /\ UNCHANGED <<editor, seriesvars, boxvars, graphvars, cachevars, menuvars>>

\* select, "with self._in_select: if item == self.current_item: with
\* self.suppress_select_event: self.table.SelectObject(...)"
SelectSame ==
    /\ Running /\ Top.fn = "select" /\ Top.pc = "guard"
    /\ ~__nonzero__(editor._in_select)
    /\ same_item(editor, Top.item)
    /\ editor' = SelectObject([editor EXCEPT
                                  !._in_select = __enter__(@),
                                  !.suppress_select_event = __enter__(@)], Top.item)
    /\ \E fires \in BOOLEAN :
          /\ fires => Top.item \in TableItems
          /\ stack' = Fired(Append(Below, [Top EXCEPT !.pc = "same_exit"]), editor', fires)
    /\ UNCHANGED <<flow, seriesvars, boxvars, graphvars, cachevars, menuvars>>

\* select, "if ask and self.modified: if not self.prompt_discard_changes():"
\* and the re-selection of the current item
SelectDeclined ==
    /\ Running /\ Top.fn = "select" /\ Top.pc = "guard"
    /\ ~__nonzero__(editor._in_select)
    /\ ~same_item(editor, Top.item)
    /\ asks(editor, Top.ask)
    /\ editor' = reselect(read_modified([editor EXCEPT !._in_select = __enter__(@)]))
    /\ \E fires \in BOOLEAN :
          /\ fires => editor.current_item \in TableItems
          /\ stack' = Fired(Append(Below, [Top EXCEPT !.pc = "decline_exit",
                                                      !.answer = "declined"]),
                            editor', fires)
    /\ UNCHANGED <<flow, seriesvars, boxvars, graphvars, cachevars, menuvars>>

\* select, the prompt is not shown or is answered with yes
SelectApproved ==
    /\ Running /\ Top.fn = "select" /\ Top.pc = "guard"
    /\ ~__nonzero__(editor._in_select)
    /\ ~same_item(editor, Top.item)
    /\ editor' = after_ask([editor EXCEPT !._in_select = __enter__(@)], Top.ask)
    /\ stack' = Append(Below, [Top EXCEPT
                                  !.pc = "set",
                                  !.answer = IF asks(editor, Top.ask) THEN "accepted" ELSE ""])
    /\ UNCHANGED <<flow, seriesvars, boxvars, graphvars, cachevars, menuvars>>

\* the child's method select calls for item
child_method(item) == IF item = NoItem THEN "clear" ELSE "load"

\* select, "self.current_item = item" to the selection of the table
SelectSet ==
    /\ Running /\ Top.fn = "select" /\ Top.pc = "set"
    /\ \E dirty \in BOOLEAN : editor' = set_item(editor, Top.item, dirty)
    /\ \E fires \in BOOLEAN :
          /\ fires => Top.item \in TableItems
          /\ stack' = Fired(Append(Below, [Top EXCEPT !.pc = "done",
                                                      !.did = @ \cup {child_method(Top.item)}]),
                            editor', fires)
    /\ UNCHANGED <<flow, seriesvars, boxvars, graphvars, cachevars, menuvars>>

\* select, the child's clear() or load(item) raises
SelectRaises ==
    /\ Running /\ Top.fn = "select" /\ Top.pc = "set"
    /\ editor' = [editor EXCEPT !.current_item = Top.item]
    /\ stack' = Append(Below, [Top EXCEPT !.did = @ \cup {child_method(Top.item)}])
    /\ flow' = [flow EXCEPT !.exc = TRUE]
    /\ UNCHANGED <<seriesvars, boxvars, graphvars, cachevars, menuvars>>

\* the contexts a frame has entered and not left, as a pair of counts
\* (_in_select, suppress_select_event)
held(fr) ==
    IF fr.fn = "select"
    THEN IF fr.pc = "guard" THEN <<0, 0>>
         ELSE IF fr.pc = "same_exit" THEN <<1, 1>> ELSE <<1, 0>>
    ELSE IF fr.fn = "on_select" /\ fr.pc = "after" THEN <<0, 1>>
    ELSE <<0, 0>>

\* the __exit__ calls of the with statements a frame is inside of
leave(self, fr) ==
    [self EXCEPT
        !._in_select = IF held(fr)[1] = 1 THEN __exit__(@) ELSE @,
        !.suppress_select_event = IF held(fr)[2] = 1 THEN __exit__(@) ELSE @]

\* select, the three return statements inside "with self._in_select"
SelectReturn ==
    /\ Running /\ Top.fn = "select"
    /\ Top.pc \in {"same_exit", "decline_exit", "done"}
    /\ editor' = leave(editor, Top)
    /\ stack' = Below
    /\ flow' = [flow EXCEPT !.ret = IF Top.pc = "decline_exit" THEN "False" ELSE "True"]
    /\ UNCHANGED <<seriesvars, boxvars, graphvars, cachevars, menuvars>>

\* on_select, "if self.suppress_select_event: return"
OnSelectSuppressed ==
    /\ Running /\ Top.fn = "on_select" /\ Top.pc = "guard"
    /\ __nonzero__(editor.suppress_select_event)
    /\ stack' = Below
    /\ flow' = [flow EXCEPT !.ret = "None"]
    /\ UNCHANGED <<editor, seriesvars, boxvars, graphvars, cachevars, menuvars>>

\* on_select, "with self.suppress_select_event:" and the call of
\* self.select(self.table.GetSelectedObject())
OnSelectCall ==
    /\ Running /\ Top.fn = "on_select" /\ Top.pc = "guard"
    /\ ~__nonzero__(editor.suppress_select_event)
    /\ editor' = [editor EXCEPT !.suppress_select_event = __enter__(@)]
    /\ stack' = Append(Append(Below, [Top EXCEPT !.pc = "after"]),
                       Frame(editor', "select", "guard", editor.selected, TRUE))
    /\ UNCHANGED <<flow, seriesvars, boxvars, graphvars, cachevars, menuvars>>

\* on_select, after select returned: the SelectEvent and the end of the
\* with statement
OnSelectReturn ==
    /\ Running /\ Top.fn = "on_select" /\ Top.pc = "after"
    /\ editor' = leave(editor, Top)
    /\ stack' = Below
    /\ flow' = [flow EXCEPT
                   !.ret = "None",
                   !.posted = IF flow.ret = "True" THEN @ \cup {"SelectEvent"} ELSE @]
    /\ UNCHANGED <<seriesvars, boxvars, graphvars, cachevars, menuvars>>

\* on_clear, the call of self.select(None)
OnClearCall ==
    /\ Running /\ Top.fn = "on_clear" /\ Top.pc = "call"
    /\ stack' = Append(Append(Below, [Top EXCEPT !.pc = "after"]),
                       Frame(editor, "select", "guard", NoItem, TRUE))
    /\ UNCHANGED <<editor, flow, seriesvars, boxvars, graphvars, cachevars, menuvars>>

\* on_clear, after select returned: the ClearEvent
OnClearReturn ==
    /\ Running /\ Top.fn = "on_clear" /\ Top.pc = "after"
    /\ stack' = Below
    /\ flow' = [flow EXCEPT
                   !.ret = "None",
                   !.posted = IF flow.ret = "True" THEN @ \cup {"ClearEvent"} ELSE @]
    /\ UNCHANGED <<editor, seriesvars, boxvars, graphvars, cachevars, menuvars>>

\* an exception leaves the call on top of the stack, through the __exit__
\* of the with statements it is inside of
Unwind ==
    /\ stack # <<>> /\ flow.exc
    /\ editor' = leave(editor, Top)
    /\ stack' = Below
    /\ UNCHANGED <<flow, seriesvars, boxvars, graphvars, cachevars, menuvars>>

NextEditor ==
    \/ Edit \/ CallSelect \/ ClickList \/ ClickClear
    \/ SelectReentered \/ SelectSame \/ SelectDeclined \/ SelectApproved
    \/ SelectSet \/ SelectRaises \/ SelectReturn
    \/ OnSelectSuppressed \/ OnSelectCall \/ OnSelectReturn
    \/ OnClearCall \/ OnClearReturn \/ Unwind

SpecEditor == InitEditor /\ [][NextEditor]_vars

\* ----------------------------------------------- build_menus: the actions
\* A call of build_menus runs its loop over a menu list of at most MaxMenu
\* entries, which are drawn one at a time; after every pass the state is the
\* one in which the call returns for the list read so far.
MaxMenu == 5

\* the roles passed to build_menus, and the entries offered
RoleSets == {{}, {"admin"}}
Callbacks == {Callback(TRUE, None, None), Callback(FALSE, None, None),
              Callback(TRUE, Some({"admin"}), None),
              Callback(TRUE, None, Some({"admin"}))}
Submenus == {Submenu(<<>>),
             Submenu(<<Callback(TRUE, None, None)>>),
             Submenu(<<Callback(TRUE, Some({"admin"}), None)>>),
             Submenu(<<Callback(TRUE, None, None), Separator,
                       Submenu(<<Callback(TRUE, None, Some({"admin"}))>>)>>),
             Submenu(<<UnknownType>>)}

InitMenu ==
    /\ series = Series(None, None, None, None, 2, 2)
    /\ adds = 0
    /\ trimmed = FALSE
    /\ last = [op |-> "__init__", dropped |-> FALSE, args |-> <<>>]
    /\ peer = Series(None, None, None, None, 2, 2)
    /\ box0 = NoBox
    /\ box = NoBox
    /\ merged = <<>>
    /\ graph = NoGraph
    /\ render = NotCalled
    /\ prop = NoProp
    /\ editor = NoEditor
    /\ stack = <<>>
    /\ flow = NoFlow
    /\ \E roles \in RoleSets : menu = Call(roles)

\* the loop is running and has an entry left
Looping == ~menu.st.raised /\ menu.n < MaxMenu

\* the next entry is '---'
PassSeparator ==
    /\ Looping
    /\ menu' = pass(menu, Separator)
    /\ UNCHANGED <<seriesvars, boxvars, graphvars, cachevars, editvars>>

\* the next entry has a callback
PassCallback ==
    /\ Looping
    /\ \E m \in Callbacks : menu' = pass(menu, m)
    /\ UNCHANGED <<seriesvars, boxvars, graphvars, cachevars, editvars>>

\* the next entry has a submenu
PassSubmenu ==
    /\ Looping
    /\ \E m \in Submenus : menu' = pass(menu, m)
    /\ UNCHANGED <<seriesvars, boxvars, graphvars, cachevars, editvars>>

\* the next entry has neither
PassUnknown ==
    /\ Looping
    /\ menu' = pass(menu, UnknownType)
    /\ UNCHANGED <<seriesvars, boxvars, graphvars, cachevars, editvars>>

NextMenu == PassSeparator \/ PassCallback \/ PassSubmenu \/ PassUnknown

SpecMenu == InitMenu /\ [][NextMenu]_vars

\* ------------------------------------------------- vocabulary of the claims
Trims == {"trim_to_domain", "trim_to_count"}

\* the samples of a series as (x, y) pairs
Pairs(self) == [i \in 1..Len(self.X) |-> <<self.X[i], self.Y[i]>>]

\* p is a contiguous run of q
IsRun(p, q) ==
    \E k \in 0..(Len(q) - Len(p)) : \A i \in 1..Len(p) : p[i] = q[k + i]

NonDecreasing(s) == \A i \in 1..(Len(s) - 1) : s[i] <= s[i + 1]

\* no box field is None and the box contains every sample
BoxSet(self) ==
    self.xmin # None /\ self.xmax # None /\ self.ymin # None /\ self.ymax # None

BoxContainsData(self) ==
    /\ BoxSet(self)
    /\ \A i \in 1..Len(self.X) : Val(self.xmin) <= self.X[i] /\ self.X[i] <= Val(self.xmax)
    /\ \A i \in 1..Len(self.Y) : Val(self.ymin) <= self.Y[i] /\ self.Y[i] <= Val(self.ymax)

\* ------------------------------------------------------------------ C1
\* C1: in every reachable state len(X) = len(Y), and the samples stay
\* index-aligned: add_point appends the pair it was given behind the pairs
\* already held, and a trim keeps a contiguous run of the pairs held before.
C1_StepAligned ==
    /\ Len(series'.X) = Len(series'.Y)
    /\ last'.op = "add_point" => Pairs(series') = Append(Pairs(series), last'.args)
    /\ last'.op \in Trims => IsRun(Pairs(series'), Pairs(series))

C1_Aligned == [](Len(series.X) = Len(series.Y)) /\ [][C1_StepAligned]_vars

\* a trim dropped samples and kept at least two, with different y values
C1_Witness ==
    /\ last.op \in Trims
    /\ last.dropped
    /\ len(series) >= 2
    /\ series.Y[1] # series.Y[2]

\* ------------------------------------------------------------------ C2
\* C2: after every add_point of a run made of add_point calls only, the box
\* contains all data and none of its four fields is None, whatever the
\* clamps and minimum sizes.
C2_BoxContainsAll ==
    (~trimmed /\ last.op = "add_point") => BoxContainsData(series)

\* ------------------------------------------------------------------ C3
\* the pairs of p whose x lies in [x1, x2]
InDomain(p, x1, x2) == SelectSeq(p, LAMBDA q : x1 <= q[1] /\ q[1] <= x2)

\* C3: with X non-decreasing and x1 <= x2, trim_to_domain(x1, x2) retains
\* exactly the samples with x1 <= x <= x2, in order, with their y values.
C3_StepExact ==
    \A x1 \in TrimVals, x2 \in TrimVals :
       ( /\ last'.op = "trim_to_domain"
         /\ x1 <= x2
         /\ NonDecreasing(series.X)
         /\ series' = trim_to_domain(series, x1, x2) )
       => Pairs(series') = InDomain(Pairs(series), x1, x2)

C3_TrimToDomainExact == [][C3_StepExact]_vars

\* ------------------------------------------------------------------ C4
\* the last k elements of p
LastN(p, k) == SubSeq(p, Len(p) - k + 1, Len(p))

\* C4: trim_to_count(n) retains exactly the last min(n, len) samples; in
\* particular trim_to_count(0) leaves no samples.
C4_StepLastN ==
    \A n \in Counts :
       (last'.op = "trim_to_count" /\ series' = trim_to_count(series, n))
       => Pairs(series') = LastN(Pairs(series), Min2(n, len(series)))

C4_TrimToCountLastN == [][C4_StepLastN]_vars

\* ------------------------------------------------------------------ C5
\* the box as the constructor left it: every field is its clamp, or None
BoxUnset(self) ==
    /\ self.xmin = self.hard_xmin /\ self.xmax = self.hard_xmax
    /\ self.ymin = self.hard_ymin /\ self.ymax = self.hard_ymax

\* C5: when a trim leaves a non-empty series with no samples, empty is True
\* and the box is unset: it holds nothing derived from the dropped samples.
C5_EmptiedBoxUnset ==
    (last.op \in Trims /\ last.dropped /\ len(series) = 0)
    => (series.empty /\ BoxUnset(series))

\* ------------------------------------------------------------------ C6
\* C6: when no sample has x >= x1, trim_to_domain(x1, x2) leaves X and Y
\* empty (index 0 is not retained).
C6_StepNoMatchEmpty ==
    last'.op = "trim_to_domain" =>
       \A x1 \in TrimVals :
          (\A i \in 1..Len(series.X) : series.X[i] < x1) =>
             \A x2 \in TrimVals :
                series' = trim_to_domain(series, x1, x2)
                => (series'.X = <<>> /\ series'.Y = <<>>)

C6_NoMatchEmpty == [][C6_StepNoMatchEmpty]_vars

\* trim_to_domain emptied a series that held samples
C6_Witness ==
    last.op = "trim_to_domain" /\ last.dropped /\ len(series) = 0

\* ------------------------------------------------------------------ C7
\* C7: after a trim that leaves a sample, the recomputed box contains the
\* retained data and is at least min_width wide and min_height high.
C7_TrimBoxCoversAndMinSize ==
    (last.op \in Trims /\ len(series) > 0)
    => /\ BoxContainsData(series)
       /\ Val(series.xmax) - Val(series.xmin) >= series.min_width
       /\ Val(series.ymax) - Val(series.ymin) >= series.min_height

\* a trim dropped samples and the retained data is narrower than min_width
\* and lower than min_height, so the box had to be widened on both axes
C7_Witness ==
    /\ last.op \in Trims
    /\ last.dropped
    /\ len(series) > 0
    /\ SeqMax(series.X) - SeqMin(series.X) < series.min_width
    /\ SeqMax(series.Y) - SeqMin(series.Y) < series.min_height

\* ------------------------------------------------------------------ C8
ClampsIncluded(self) ==
    /\ self.hard_xmin # None => (self.xmin # None /\ Val(self.xmin) <= Val(self.hard_xmin))
    /\ self.hard_xmax # None => (self.xmax # None /\ Val(self.xmax) >= Val(self.hard_xmax))
    /\ self.hard_ymin # None => (self.ymin # None /\ Val(self.ymin) <= Val(self.hard_ymin))
    /\ self.hard_ymax # None => (self.ymax # None /\ Val(self.ymax) >= Val(self.hard_ymax))

ClampsKept ==
    /\ series'.hard_xmin = series.hard_xmin /\ series'.hard_xmax = series.hard_xmax
    /\ series'.hard_ymin = series.hard_ymin /\ series'.hard_ymax = series.hard_ymax

\* C8: in every reachable state the box includes every configured hard
\* clamp, and no operation modifies the stored clamp values.
C8_ClampsHold == [](ClampsIncluded(series)) /\ [][ClampsKept]_vars

\* after a trim the retained data lies strictly inside a clamp on each side
\* of an axis, so only the clamp keeps the box that wide
C8_Witness ==
    /\ last.op \in Trims
    /\ len(series) > 0
    /\ last.dropped
    /\ \/ series.hard_xmin # None /\ SeqMin(series.X) > Val(series.hard_xmin)
       \/ series.hard_xmax # None /\ SeqMax(series.X) < Val(series.hard_xmax)

\* ----------------------------------------------------------------- C10
C10_StepFlag ==
    /\ (series.empty /\ ~series'.empty) => last'.op = "add_point"
    /\ (~series.empty /\ series'.empty) => (last'.op \in Trims /\ len(series') = 0)
    /\ (~series.empty /\ len(series') > 0) => ~series'.empty

\* C10: empty is True exactly when the series holds no samples; it turns
\* False on the first add_point, stays False while samples remain and turns
\* True again only when a trim leaves no samples.
C10_EmptyFlag == [](series.empty <=> len(series) = 0) /\ [][C10_StepFlag]_vars

\* the flag went through a whole cycle: the series was filled, a trim left it
\* without samples, and the add_point that ran last filled it again
C10_Witness ==
    /\ last.op = "add_point"
    /\ adds >= 2 /\ trimmed
    /\ len(series) = 1 /\ ~series.empty

\* ------------------------------------------------------------------ C9
OptMin(o, v) == IF o = None THEN v ELSE Some(Min2(Val(o), Val(v)))
OptMax(o, v) == IF o = None THEN v ELSE Some(Max2(Val(o), Val(v)))

\* the element-wise merge of a non-empty series' box into b
Merge(b, self) ==
    << OptMin(b[1], self.xmin), OptMin(b[2], self.ymin),
       OptMax(b[3], self.xmax), OptMax(b[4], self.ymax) >>

\* C9: update_bbox of a non-empty series merges element-wise (minimum for
\* box[0] and box[1], maximum for box[2] and box[3], None replaced by the
\* series' value), and merging two series gives the same box in either order.
C9_MergeElementwise ==
    /\ (Len(merged) = 1 /\ ~Ser(merged[1]).empty)
       => box = Merge(box0, Ser(merged[1]))
    /\ (Len(merged) = 2 /\ ~series.empty /\ ~peer.empty)
       => /\ box = Merge(Merge(box0, Ser(merged[1])), Ser(merged[2]))
          /\ box = update_bbox(Ser(merged[1]), update_bbox(Ser(merged[2]), box0))

\* two non-empty series were merged, peer first, into a box that held
\* numbers and both calls changed the box
C9_Witness ==
    /\ merged = <<2, 1>>
    /\ ~series.empty /\ ~peer.empty
    /\ box0 # NoBox
    /\ update_bbox(peer, box0) # box0
    /\ box # update_bbox(peer, box0)

\* ----------------------------------------------------------------- C14
\* C14: for every n >= 0 and every reachable series, trim_to_count(n) run a
\* second time leaves X, Y, the box and the empty flag as the first run
\* left them.
C14_StepIdempotent ==
    \A n \in Counts :
       (last'.op = "trim_to_count" /\ series' = trim_to_count(series, n))
       => trim_to_count(series', n) = series'

C14_TrimToCountIdempotent == [][C14_StepIdempotent]_vars

\* trim_to_count dropped samples of a series holding three and kept some
C14_Witness ==
    /\ last.op = "trim_to_count"
    /\ last.dropped
    /\ adds = 3
    /\ len(series) \in {1, 2}

\* ----------------------------------------------------------------- C15
\* the first add_point of a series nothing else was done to
FirstAdd == last.op = "add_point" /\ adds = 1 /\ ~trimmed

\* twice the value an interval [lo, hi] of optional clamps is centered on
\* when at least one of them is given
ClampCenter2(lo, hi) ==
    IF lo # None /\ hi # None THEN Val(lo) + Val(hi)
    ELSE IF lo # None THEN 2 * Val(lo) ELSE 2 * Val(hi)

Centered(lo, hi, hard_lo, hard_hi, p, size) ==
    /\ Val(hi) - Val(lo) = size
    /\ Val(lo) + Val(hi) =
          IF hard_lo = None /\ hard_hi = None THEN 2 * p
          ELSE ClampCenter2(hard_lo, hard_hi)

\* C15 as claimed: after the first add_point(p, q) the box has extent
\* exactly min_width by min_height and is centered, on each axis, on the
\* clamp value(s) when a clamp is given and on the point otherwise.
C15_InitialBoxCentered ==
    FirstAdd =>
       /\ Centered(series.xmin, series.xmax, series.hard_xmin, series.hard_xmax,
                   last.args[1], series.min_width)
       /\ Centered(series.ymin, series.ymax, series.hard_ymin, series.hard_ymax,
                   last.args[2], series.min_height)

\* the interval initial_point makes out of the clamps and add_point then
\* moves one end of: a missing end lies size away from the given one, the
\* lower end is lowered to p when p is below it, and otherwise the upper end
\* is raised to p when p is above it
Anchored(lo, hi, hard_lo, hard_hi, p, size) ==
    LET lo0 == IF hard_lo # None THEN Val(hard_lo) ELSE Val(hard_hi) - size
        hi0 == IF hard_hi # None THEN Val(hard_hi) ELSE Val(hard_lo) + size
    IN  /\ Val(lo) = Min2(lo0, p)
        /\ Val(hi) = IF p < lo0 THEN hi0 ELSE Max2(hi0, p)

InitialBox(lo, hi, hard_lo, hard_hi, p, size) ==
    IF hard_lo = None /\ hard_hi = None
    THEN Val(lo) = p - size \div 2 /\ Val(hi) = p + size \div 2
    ELSE Anchored(lo, hi, hard_lo, hard_hi, p, size)

\* C15 amended: after the first add_point(p, q) an axis without clamps has
\* the box of extent min_width (min_height) centered on the point; an axis
\* with a clamp has the box anchored at the clamp(s), a missing end placed
\* min_width (min_height) from the given one, stretched to the point.
C15_InitialBoxAnchored ==
    FirstAdd =>
       /\ BoxSet(series)
       /\ InitialBox(series.xmin, series.xmax, series.hard_xmin, series.hard_xmax,
                     last.args[1], series.min_width)
       /\ InitialBox(series.ymin, series.ymax, series.hard_ymin, series.hard_ymax,
                     last.args[2], series.min_height)

\* the first point went into a series with a lower x clamp and no y clamp,
\* beyond the clamp's initial interval: the x axis is anchored and stretched,
\* the y axis is centered on the point
C15_Witness ==
    /\ FirstAdd
    /\ series.hard_xmin = Some(0) /\ series.hard_xmax = None
    /\ series.hard_ymin = None /\ series.hard_ymax = None
    /\ last.args = <<4, 2>>

\* ----------------------------------------------------------------- C16
\* the scenario's points (0,0), (1,5), (2,3) were added to a fresh series
\* with min_width = min_height = 1 and no clamps
ScenarioDone ==
    /\ series.X = <<0, 2, 4>> /\ series.Y = <<0, 10, 6>>
    /\ series.min_width = 2 /\ series.min_height = 2
    /\ series.hard_xmin = None /\ series.hard_xmax = None
    /\ series.hard_ymin = None /\ series.hard_ymax = None

\* C16 as claimed: the box is xmax = 2, ymin = 0, ymax = 5 and xmin is
\* -0.5 or 0.
C16_ScenarioBox ==
    ScenarioDone =>
       /\ series.xmax = Some(4) /\ series.ymin = Some(0) /\ series.ymax = Some(10)
       /\ series.xmin \in {Some(-1), Some(0)}

\* C16 amended: the box is xmax = 2, ymin = -0.5, ymax = 5 and xmin is
\* -0.5 or 0.
C16_ScenarioBoxCentered ==
    ScenarioDone =>
       /\ series.xmax = Some(4) /\ series.ymin = Some(-1) /\ series.ymax = Some(10)
       /\ series.xmin \in {Some(-1), Some(0)}

C16_Witness == ScenarioDone /\ adds = 3 /\ last.args = <<4, 6>>

\* ----------------------------------------------------------------- C11
\* redraw ran last, by itself or at the end of add_points
Redrawn == last.op \in {"redraw", "add_points"}

\* the bounds redraw handed to axis a: <<xbound, ybound>>, or <<>>
Handed(a) == IF a = 0 THEN render.axes ELSE render.axes2

\* the merged box of axis a
Box(a) == boxes(graph, <<series, peer>>, a)

NoStrict == graph.bbox = NoBox /\ graph.bbox2 = NoBox

\* the merged box of every axis that has series has numbers as its x range
UnionDefined ==
    \A a \in {0, 1} : axes(graph, a) => (Box(a)[1] # None /\ Box(a)[3] # None)

\* the union of the x ranges of the merged boxes of the axes that have
\* series, widened by xpad
UnionLower ==
    IF axes(graph, 0) /\ axes(graph, 1)
    THEN Min2(Val(Box(0)[1]), Val(Box(1)[1])) - graph.xpad
    ELSE IF axes(graph, 0) THEN Val(Box(0)[1]) - graph.xpad
    ELSE Val(Box(1)[1]) - graph.xpad

UnionUpper ==
    IF axes(graph, 0) /\ axes(graph, 1)
    THEN Max2(Val(Box(0)[3]), Val(Box(1)[3])) + graph.xpad
    ELSE IF axes(graph, 0) THEN Val(Box(0)[3]) + graph.xpad
    ELSE Val(Box(1)[3]) + graph.xpad

\* C11 as claimed: without strict boxes the x-bound handed to an axis is
\* the union of the merged boxes of the axes that have series, widened by
\* xpad: lower = min(xmin) - xpad and upper = max(xmax) + xpad.
C11_XBoundUnion ==
    (Redrawn /\ NoStrict) =>
       \A a \in {0, 1} :
          Handed(a) # <<>> =>
             /\ UnionDefined
             /\ Handed(a)[1] = <<UnionLower, <<UnionUpper, 0>>>>

\* C11 amended: the lower x-bound is min(xmin) - xpad and the upper x-bound
\* is max(lower + EPS, max(xmax) + xpad).
C11_XBoundUnionEPS ==
    (Redrawn /\ NoStrict) =>
       \A a \in {0, 1} :
          Handed(a) # <<>> =>
             /\ UnionDefined
             /\ Handed(a)[1] = <<UnionLower, MaxWithEPS(UnionLower, UnionUpper)>>

\* both axes have a series with a point, their boxes differ on both sides,
\* the graph pads its x range and the canvas was drawn
C11_Witness ==
    /\ last.op = "add_points"
    /\ render.status = "draw"
    /\ NoStrict
    /\ graph.xpad = 2
    /\ axes(graph, 0) /\ axes(graph, 1)
    /\ PyLt(Box(1)[1], Box(0)[1])
    /\ PyLt(Box(1)[3], Box(0)[3])

\* ----------------------------------------------------------------- C12
\* C12 as claimed: each bound that the strict box of an axis specifies is
\* handed to the renderer for that axis as specified.
C12_StrictWins ==
    Redrawn =>
       \A a \in {0, 1} :
          Handed(a) # <<>> =>
             /\ strict(graph, a)[1] # None => Handed(a)[1][1] = Val(strict(graph, a)[1])
             /\ strict(graph, a)[3] # None => Handed(a)[1][2] = <<Val(strict(graph, a)[3]), 0>>
             /\ strict(graph, a)[2] # None => Handed(a)[2][1] = Val(strict(graph, a)[2])
             /\ strict(graph, a)[4] # None => Handed(a)[2][2] = <<Val(strict(graph, a)[4]), 0>>

\* the x override that applies to axis a: with series on both axes the one
\* of bbox2 when it is given, otherwise the one of the axis' own strict box
XStrict(a, k) ==
    IF axes(graph, 0) /\ axes(graph, 1) /\ graph.bbox2[k] # None
    THEN Val(graph.bbox2[k])
    ELSE Val(strict(graph, a)[k])

\* C12 amended: a lower bound that the strict box of an axis specifies is
\* handed as specified and an upper bound as max(lower + EPS, specified),
\* except that with series on both axes an x bound of bbox2 replaces the
\* one of bbox on the shared x axis.
C12_StrictWinsShared ==
    Redrawn =>
       \A a \in {0, 1} :
          Handed(a) # <<>> =>
             /\ strict(graph, a)[1] # None => Handed(a)[1][1] = XStrict(a, 1)
             /\ strict(graph, a)[3] # None =>
                   Handed(a)[1][2] = MaxWithEPS(Handed(a)[1][1], XStrict(a, 3))
             /\ strict(graph, a)[2] # None => Handed(a)[2][1] = Val(strict(graph, a)[2])
             /\ strict(graph, a)[4] # None =>
                   Handed(a)[2][2] = MaxWithEPS(Handed(a)[2][1], Val(strict(graph, a)[4]))

\* both axes have a series with a point and a strict box each, and the
\* canvas was drawn
C12_Witness ==
    /\ Redrawn
    /\ render.status = "draw"
    /\ graph.bbox = Strict1 /\ graph.bbox2 = Strict2
    /\ axes(graph, 0) /\ axes(graph, 1)
    /\ len(series) > 0 /\ len(peer) > 0

\* ----------------------------------------------------------------- C13
\* no series of the graph holds a point
NoPoints == \A i \in 1..graph.n : len(Ser(i)) = 0

\* C13: when no series has any point (none was added, or every one added
\* is empty) redraw hands no bounds to the renderer, does not draw the
\* canvas and raises nothing.
C13_NoPointsNoOp ==
    (last.op = "redraw" /\ NoPoints) =>
       (render.status = "return" /\ render.axes = <<>> /\ render.axes2 = <<>>)

\* ----------------------------------------------------------------- C17
\* the object cached for the instance, when there is one
Cached(p) == Val(p.dict).obj

\* C17: for a cached_property that is not weak, the method is invoked only
\* by a get that finds no cached value (the first get, or the first after a
\* delete) and that get caches what the method returned; any other get
\* returns the cached value and leaves it; after set(v) the cached value is
\* v, so the next get returns v without invoking the method; delete leaves
\* nothing cached, and changes nothing when nothing was cached.
C17_StepOnce ==
    ~prop.weak =>
       /\ prop'.calls # prop.calls =>
             (last'.op = "get" /\ prop.dict = None /\ prop'.calls = prop.calls + 1)
       /\ (last'.op = "get" /\ prop.dict = None) =>
             /\ prop'.calls = prop.calls + 1
             /\ prop'.ret = prop.value
             /\ prop'.dict # None /\ Cached(prop') = prop.value
       /\ (last'.op = "get" /\ prop.dict # None) =>
             /\ prop'.calls = prop.calls
             /\ prop'.ret = Cached(prop)
             /\ prop'.dict = prop.dict
       /\ last'.op = "set" => (prop'.dict # None /\ Cached(prop') = last'.args[1])
       /\ last'.op = "delete" => prop'.dict = None
       /\ (last'.op = "delete" /\ prop.dict = None) => prop' = prop

C17_ComputedOnce == [][C17_StepOnce]_vars

\* the method was invoked by the first get and by the first get after a
\* delete, and a later get returned the cached value although the method
\* would return another one by now
C17_Witness ==
    /\ ~prop.weak
    /\ last.op = "get"
    /\ prop.calls = 2
    /\ prop.dict # None
    /\ prop.ret = Cached(prop)
    /\ prop.ret # prop.value


\* ------------------------------------------------------------------- C18
\* the calls in progress that are inside "with self._in_select", and those
\* inside "with self.suppress_select_event"
InSelectOpen == {i \in 1..Len(stack) : held(stack[i])[1] = 1}
SuppressOpen == {i \in 1..Len(stack) : held(stack[i])[2] = 1}

\* the calls of on_select that are inside its guarded body
OnSelectBodies == {i \in 1..Len(stack) : stack[i].fn = "on_select" /\ stack[i].pc = "after"}

\* C18: the depth of a ContextualCounter equals the number of contexts
\* entered and not yet left; it is never negative, it is 0 again once the
\* outermost call has returned or has been left by an exception, the counter
\* is true exactly when a context is open, and the body of select and the
\* body of on_select, guarded by their counters, are active at most once at
\* a time.
C18_DepthCountsOpen ==
    /\ editor._in_select = Cardinality(InSelectOpen)
    /\ editor.suppress_select_event = Cardinality(SuppressOpen)
    /\ editor._in_select >= 0 /\ editor.suppress_select_event >= 0
    /\ Idle => editor._in_select = 0 /\ editor.suppress_select_event = 0
    /\ __nonzero__(editor._in_select) <=> InSelectOpen # {}
    /\ __nonzero__(editor.suppress_select_event) <=> SuppressOpen # {}
    /\ Cardinality(InSelectOpen) <= 1
    /\ Cardinality(OnSelectBodies) <= 1

\* on_select called select, whose table selection called on_select again:
\* suppress_select_event is entered twice, _in_select once
C18_Witness ==
    /\ Len(stack) = 3
    /\ editor.suppress_select_event = 2
    /\ editor._in_select = 1
    /\ Top.fn = "on_select" /\ Top.pc = "guard"

\* ------------------------------------------------------------------- C19
\* a call of select returns (it is not left by an exception)
SelectReturns ==
    /\ Running /\ Top.fn = "select"
    /\ stack' = Below
    /\ ~flow'.exc

\* C19: a call select(item, ask=True) returns False exactly when the user
\* was asked and declined, which happens only with a dirty editor; it then
\* leaves current_item and dirty as it found them and has called neither
\* load() nor clear().  Otherwise it returns True, and when item differs
\* from the current_item it found, current_item is item and dirty is False
\* afterwards.
C19_StepContract ==
    (SelectReturns /\ Top.ask) =>
        /\ flow'.ret \in {"True", "False"}
        /\ flow'.ret = "False" <=> Top.answer = "declined"
        /\ Top.answer = "declined" => Top.dirty0
        /\ flow'.ret = "False" =>
              /\ editor'.current_item = Top.cur0
              /\ editor'.dirty = Top.dirty0
              /\ Top.did = {}
        /\ (flow'.ret = "True" /\ Top.item # Top.cur0) =>
              /\ editor'.current_item = Top.item
              /\ ~editor'.dirty

C19_SelectContract == [][C19_StepContract]_vars

\* select(2) on a dirty editor showing item 1 was declined
C19_Witness ==
    /\ Idle
    /\ flow.ret = "False"
    /\ editor.current_item = 1
    /\ editor.dirty

\* ------------------------------------------------------------------- C20
\* C20: when a call select(None) that went past the guard returns True, the
\* child's clear() has been called and dirty is False; and when on_clear
\* posts a ClearEvent, dirty is False.
C20_StepCleared ==
    /\ (SelectReturns /\ Top.item = NoItem /\ Top.pc # "guard" /\ flow'.ret = "True") =>
          /\ "clear" \in Top.did
          /\ ~editor'.dirty
    /\ (Running /\ Top.fn = "on_clear" /\ "ClearEvent" \in flow'.posted) =>
          ~editor'.dirty

C20_SelectNoneClears == [][C20_StepCleared]_vars


\* ------------------------------------------------------------------- C21
\* the series collection is frozen and one line is plotted for each series
Frozen == graph.locked /\ graph.plotted = Some(graph.n)

\* C21: a redraw or add_points that runs with at least one series freezes the
\* series collection; from then on it stays frozen with the same series, an
\* add_series raises and changes nothing, and the lines redraw sets data on
\* are as many as the series.
C21_StepFrozen ==
    /\ (last'.op \in {"redraw", "add_points"} /\ graph'.n >= 1) =>
          /\ Frozen'
          /\ Len(render'.lines) = graph'.n
    /\ Frozen =>
          /\ Frozen'
          /\ graph'.n = graph.n
          /\ graph'.axis = graph.axis
    /\ (Frozen /\ last'.op = "add_series") =>
          /\ last'.args = <<"AttributeError">>
          /\ graph' = graph
          /\ series' = series /\ peer' = peer

C21_SeriesFrozen == [][C21_StepFrozen]_vars

\* add_series was called on a graph that has drawn its one series
C21_Witness ==
    /\ last.op = "add_series"
    /\ last.args = <<"AttributeError">>
    /\ graph.n = 1
    /\ Frozen
    /\ render.status = "draw"


\* ------------------------------------------------------------------- C22
\* a trim has just run and has left samples
TrimmedToSome == last.op \in Trims /\ len(series) > 0

\* C22 as stated: after a trim that leaves samples the box is centered on
\* the midpoint of the retained data, on both axes, whatever the clamps.
C22_CenteredOnData ==
    TrimmedToSome =>
        /\ Val(series.xmin) + Val(series.xmax) = SeqMin(series.X) + SeqMax(series.X)
        /\ Val(series.ymin) + Val(series.ymax) = SeqMin(series.Y) + SeqMax(series.Y)

\* the lower and upper end of a data range lo..hi widened to a hard clamp
ClampedLo(hard, lo) == IF hard # None /\ Val(hard) < lo THEN Val(hard) ELSE lo
ClampedHi(hard, hi) == IF hard # None /\ Val(hard) > hi THEN Val(hard) ELSE hi

\* no clamp lies outside the range of the retained data
ClampsInsideData ==
    /\ ClampedLo(series.hard_xmin, SeqMin(series.X)) = SeqMin(series.X)
    /\ ClampedHi(series.hard_xmax, SeqMax(series.X)) = SeqMax(series.X)
    /\ ClampedLo(series.hard_ymin, SeqMin(series.Y)) = SeqMin(series.Y)
    /\ ClampedHi(series.hard_ymax, SeqMax(series.Y)) = SeqMax(series.Y)

\* C22 amended: after a trim that leaves samples the box is centered on the
\* midpoint of the range of the retained data widened to the hard clamps, on
\* both axes; that is the midpoint of the data when no clamp lies outside
\* the data.
C22_CenteredOnClamped ==
    TrimmedToSome =>
        /\ Val(series.xmin) + Val(series.xmax)
              = ClampedLo(series.hard_xmin, SeqMin(series.X))
                + ClampedHi(series.hard_xmax, SeqMax(series.X))
        /\ Val(series.ymin) + Val(series.ymax)
              = ClampedLo(series.hard_ymin, SeqMin(series.Y))
                + ClampedHi(series.hard_ymax, SeqMax(series.Y))
        /\ ClampsInsideData =>
              /\ Val(series.xmin) + Val(series.xmax) = SeqMin(series.X) + SeqMax(series.X)
              /\ Val(series.ymin) + Val(series.ymax) = SeqMin(series.Y) + SeqMax(series.Y)

\* a trim left one sample at x = 2 of a series clamped below at x = 0: the
\* x range is moved off the data by the clamp, the y range is widened about
\* the data to the minimum height
C22_Witness ==
    /\ TrimmedToSome
    /\ last.dropped
    /\ series.hard_xmin = Some(0) /\ series.hard_xmax = None
    /\ SeqMin(series.X) = 4 /\ SeqMax(series.X) = 4
    /\ series.xmin = Some(0) /\ series.xmax = Some(4)
    /\ SeqMin(series.Y) = SeqMax(series.Y)
    /\ Val(series.ymax) - Val(series.ymin) = series.min_height
    /\ series.min_height > 0


\* ------------------------------------------------------------------- C23
\* the pairs of bounds <<lower, upper>> the last redraw handed to the
\* renderer, for x and y of both axes
HandedPairs ==
    {render.axes[i] : i \in DOMAIN render.axes} \cup
    {render.axes2[i] : i \in DOMAIN render.axes2}

\* upper = v + k * EPS lies above lower
Above(lower, upper) == upper[1] > lower \/ (upper[1] = lower /\ upper[2] >= 1)

\* C23: in every pair of bounds redraw hands to the renderer the upper
\* bound is above the lower bound.
C23_NonDegenerate == \A b \in HandedPairs : Above(b[1], b[2])

\* ------------------------------------------------------------------- C24
\* a series of the graph holds a sample
SomePoints == \E i \in 1..graph.n : len(Ser(i)) > 0

\* the y bounds of axis a are its merged y range, without padding
Unpadded(a) ==
    /\ Box(a)[2] # None /\ Box(a)[4] # None
    /\ Handed(a)[2] = <<Val(Box(a)[2]), MaxWithEPS(Val(Box(a)[2]), Val(Box(a)[4]))>>

\* C24: with pad omitted and ypad, ypad2 left at 0 the y padding of both
\* axes is the number 0, and a redraw with a sample in some series draws and
\* hands each axis that has series its merged y range as y bounds; with pad
\* given, a ypad or ypad2 left at 0 is pad.
C24_PadDefaults ==
    /\ (graph.given.pad = None /\ graph.given.ypad = 0 /\ graph.given.ypad2 = 0) =>
          /\ graph.ypad = Some(0) /\ graph.ypad2 = Some(0)
          /\ (Redrawn /\ SomePoints /\ NoStrict) =>
                /\ render.status = "draw"
                /\ \A a \in {0, 1} : axes(graph, a) => Unpadded(a)
    /\ graph.given.pad # None =>
          /\ graph.given.ypad = 0 => graph.ypad = graph.given.pad
          /\ graph.given.ypad2 = 0 => graph.ypad2 = graph.given.pad


\* ------------------------------------------------------------------- C25
\* the cache holds a weak reference whose object has been collected
DeadRef(p) == cached(p) /\ Val(p.dict).ref /\ Val(p.dict).dead

\* C25: a get of a weak cached_property that finds a dead weak reference
\* invokes the method again, and no get of a weak cached_property returns
\* None, which the method never returns.
C25_StepWeakGet ==
    (prop.weak /\ last'.op = "get") =>
        /\ DeadRef(prop) => prop'.calls = prop.calls + 1
        /\ prop'.ret # PyNone

C25_DeadRefRecomputed == [][C25_StepWeakGet]_vars


\* ------------------------------------------------------------------- C26
\* what the call has appended to parent
Appended == menu.st.parent

\* C26: build_menus appends no two separators to parent without an item or
\* submenu between them, appends no separator before the first item or
\* submenu, and returns the number of items and submenus it appended.
C26_SeparatorsAndCount ==
    /\ \A i \in 1..(Len(Appended) - 1) : ~(Appended[i] = "---" /\ Appended[i + 1] = "---")
    /\ Appended # <<>> => Appended[1] # "---"
    /\ ~menu.st.raised =>
          menu.st.have_items = Cardinality({i \in DOMAIN Appended : Appended[i] # "---"})

====
